---- MODULE Spec2Model ----
(***************************************************************************)
(* Attach/detach lifecycle of the FUSB30x driver (fusb30x_driver.c).       *)
(* fusb30x_probe and fusb30x_remove are modelled step by step, one action  *)
(* per statement that calls out of the function.  The platform helpers     *)
(* they call (fusb_InitializeGPIO, fusb_StopThreads, ...) live in          *)
(* platform_helpers.c / core.c; they are modelled from spec.md sections    *)
(* 4.2 - 4.5 and operate, like the C helpers which take no argument, on    *)
(* the globally registered chip (fusb30x_GetChip).                         *)
(***************************************************************************)
EXTENDS Integers, Sequences, FiniteSets, TLC

MaxChips == 3
MaxTrig == 2

NULL == 0
EINVAL == 22
EIO == 5
ENOMEM == 12
TheClient == 1

ChipIds == 1..MaxChips
GpioErrors == {-19, -16, 1}
Sources == {"irq", "timer", "sysfs"}

VARIABLES
    pc,         \* position of the attach/detach orchestration context
    client,     \* argument of the running probe/remove call
    chip,       \* local variable `chip` of probe / remove
    ret,        \* return value (probe: local `ret` or the literal returned)
    bound,      \* the i2c core considers the device bound to the driver
    nalloc,     \* number of chip structures handed out by devm_kzalloc
    g_chip,     \* global chip pointer behind fusb30x_SetChip/GetChip
    clientdata, \* i2c_get_clientdata(TheClient)
    chips,      \* contents of every chip structure and of what it owns
    base,       \* registration as it was when the running probe was entered
    plog,       \* calls made by the most recent probe, in order
    rlog,       \* calls made by the most recent remove, in order
    removed,    \* chips for which remove has returned
    lastEvent   \* last trigger or run: <<chip, source, accepted, chip already removed>>

vars == <<pc, client, chip, ret, bound, nalloc, g_chip, clientdata, chips,
          base, plog, rlog, removed, lastEvent>>

(***************************************************************************)
(* Chip structure.  devm_kzalloc returns zeroed memory: BlankChip.         *)
(***************************************************************************)
BlankChip ==
    [client |-> NULL, lock |-> FALSE, data |-> FALSE,
     gpio |-> "none", irq |-> FALSE,
     workers |-> "none", timers |-> "none",
     sysfs |-> FALSE, core |-> FALSE,
     pending |-> FALSE, running |-> 0, trig |-> 0]

(***************************************************************************)
(* Order of the statements of probe and of remove.                         *)
(***************************************************************************)
ProbeSeq_schedFirst ==
    <<"p_client", "p_match", "p_func", "p_alloc", "p_setchip", "p_mutex",
      "p_chipdata", "p_clientdata", "p_valid", "p_gpio", "p_sched",
      "p_workers", "p_timer", "p_sysfs", "p_core", "p_ret", "p_done">>

ProbeSeq_schedBeforeCore ==
    <<"p_client", "p_match", "p_func", "p_alloc", "p_setchip", "p_mutex",
      "p_chipdata", "p_clientdata", "p_valid", "p_gpio", "p_workers",
      "p_timer", "p_sysfs", "p_sched", "p_core", "p_ret", "p_done">>

ProbeSeq_timerBeforeWorkers ==
    <<"p_client", "p_match", "p_func", "p_alloc", "p_setchip", "p_mutex",
      "p_chipdata", "p_clientdata", "p_valid", "p_gpio", "p_timer",
      "p_workers", "p_sysfs", "p_core", "p_sched", "p_ret", "p_done">>

ProbeSeq_allocBeforeFunc ==
    <<"p_client", "p_match", "p_alloc", "p_func", "p_setchip", "p_mutex",
      "p_chipdata", "p_clientdata", "p_valid", "p_gpio", "p_workers",
      "p_timer", "p_sysfs", "p_core", "p_sched", "p_ret", "p_done">>

ProbeSeq ==
    <<"p_client", "p_match", "p_func", "p_alloc", "p_setchip", "p_mutex",
      "p_chipdata", "p_clientdata", "p_valid", "p_gpio", "p_workers",
      "p_timer", "p_sysfs", "p_core", "p_sched", "p_ret", "p_done">>

RemoveSeq_noStopThreads ==
    <<"r_getdata", "r_timers", "r_gpio", "r_ret", "r_done">>

RemoveSeq_threadsFirst ==
    <<"r_getdata", "r_threads", "r_timers", "r_gpio", "r_ret", "r_done">>

RemoveSeq ==
    <<"r_getdata", "r_timers", "r_threads", "r_gpio", "r_ret", "r_done">>

After(seq, l) == seq[(CHOOSE i \in 1..Len(seq) : seq[i] = l) + 1]

(***************************************************************************)
(* Platform helpers, each acting on the chip structure g_chip points to.   *)
(***************************************************************************)
fusb_InitChipData(c) == [c EXCEPT !.data = TRUE]

fusb_InitializeGPIO(c) == [c EXCEPT !.gpio = "configured"]

fusb_InitializeWorkers(c) ==
    [c EXCEPT !.workers = "dormant", !.pending = FALSE, !.trig = 0]

fusb_InitializeTimer(c) == [c EXCEPT !.timers = "idle"]

fusb_Sysfs_Init(c) == [c EXCEPT !.sysfs = TRUE]

fusb_InitializeCore(c) == [c EXCEPT !.core = TRUE]

fusb_ScheduleWork(c) ==
    [c EXCEPT !.workers = "active",
              !.timers = IF c.timers = "idle" THEN "running" ELSE c.timers,
              !.irq = (c.gpio = "configured")]

fusb_StopTimers(c) ==
    [c EXCEPT !.timers = IF c.timers = "none" THEN "none" ELSE "cancelled"]

fusb_StopThreads_begin(c) ==
    [c EXCEPT !.workers = IF c.workers = "none" THEN "none" ELSE "stopping",
              !.pending = FALSE, !.trig = 0]

fusb_StopThreads_end(c) ==
    [c EXCEPT !.workers = IF c.workers = "none" THEN "none" ELSE "stopped"]

fusb_GPIO_Cleanup(c) ==
    [c EXCEPT !.irq = FALSE,
              !.gpio = IF c.gpio = "none" THEN "none" ELSE "released"]

Global == IF g_chip = NULL THEN BlankChip ELSE chips[g_chip]

SetGlobal(c) ==
    IF g_chip = NULL THEN chips ELSE [chips EXCEPT ![g_chip] = c]

SourceEnabled(c, src) ==
    CASE src = "irq"   -> c.irq
      [] src = "timer" -> c.timers = "running"
      [] src = "sysfs" -> c.sysfs

Accepts(c) == c.workers = "active"

Min(a, b) == IF a < b THEN a ELSE b

Init ==
    /\ pc = "idle"
    /\ client = NULL
    /\ chip = NULL
    /\ ret = 0
    /\ bound = FALSE
    /\ nalloc = 0
    /\ g_chip = NULL
    /\ clientdata = NULL
    /\ chips = [k \in ChipIds |-> BlankChip]
    /\ base = [g_chip |-> NULL, clientdata |-> NULL, bound |-> FALSE, nalloc |-> 0]
    /\ plog = <<>>
    /\ rlog = <<>>
    /\ removed = {}
    /\ lastEvent = <<0, "none", FALSE, FALSE>>

(***************************************************************************)
(* fusb30x_probe                                                           *)
(***************************************************************************)
Enter(c) ==
    /\ pc = "idle"
    /\ pc' = ProbeSeq[1]
    /\ client' = c
    /\ chip' = NULL
    /\ ret' = 0
    /\ base' = [g_chip |-> g_chip, clientdata |-> clientdata, bound |-> bound,
                nalloc |-> nalloc]
    /\ plog' = <<>>
    /\ UNCHANGED <<bound, nalloc, g_chip, clientdata, chips, rlog, removed, lastEvent>>

ProbeEnter ==
    /\ ~bound
    /\ \E c \in {NULL, TheClient} : Enter(c)

ReProbeEnter ==
    /\ bound
    /\ Enter(TheClient)

Fail(e) ==
    /\ pc' = "p_done"
    /\ ret' = e

Step(l, call) ==
    /\ pc = l
    /\ plog' = Append(plog, call)

ProbeCheckClient ==
    /\ Step("p_client", "check_client")
    /\ IF client = NULL
          THEN Fail(-EINVAL)
          ELSE pc' = After(ProbeSeq, "p_client") /\ ret' = ret
    /\ UNCHANGED <<client, chip, bound, nalloc, g_chip, clientdata, chips,
                   base, rlog, removed, lastEvent>>

ProbeMatchDevice ==
    /\ Step("p_match", "of_match_device")
    /\ \E matched \in BOOLEAN :
          IF ~matched
             THEN Fail(-EINVAL)
             ELSE pc' = After(ProbeSeq, "p_match") /\ ret' = ret
    /\ UNCHANGED <<client, chip, bound, nalloc, g_chip, clientdata, chips,
                   base, rlog, removed, lastEvent>>

ProbeCheckFunctionality ==
    /\ Step("p_func", "i2c_check_functionality")
    /\ \E supported \in BOOLEAN :
          IF ~supported
             THEN Fail(-EIO)
             ELSE pc' = After(ProbeSeq, "p_func") /\ ret' = ret
    /\ UNCHANGED <<client, chip, bound, nalloc, g_chip, clientdata, chips,
                   base, rlog, removed, lastEvent>>

ProbeAlloc ==
    /\ Step("p_alloc", "devm_kzalloc")
    /\ \/ /\ Fail(-ENOMEM)
          /\ UNCHANGED <<chip, nalloc, chips>>
       \/ /\ nalloc < MaxChips
          /\ nalloc' = nalloc + 1
          /\ chip' = nalloc + 1
          /\ chips' = [chips EXCEPT ![nalloc + 1] = [BlankChip EXCEPT !.client = client]]
          /\ pc' = After(ProbeSeq, "p_alloc")
          /\ ret' = ret
    /\ UNCHANGED <<client, bound, g_chip, clientdata, base, rlog, removed, lastEvent>>

ProbeSetChip ==
    /\ Step("p_setchip", "fusb30x_SetChip")
    /\ g_chip' = chip
    /\ pc' = After(ProbeSeq, "p_setchip")
    /\ UNCHANGED <<client, chip, ret, bound, nalloc, clientdata, chips,
                   base, rlog, removed, lastEvent>>

ProbeMutexInit ==
    /\ Step("p_mutex", "mutex_init")
    /\ chips' = [chips EXCEPT ![chip].lock = TRUE]
    /\ pc' = After(ProbeSeq, "p_mutex")
    /\ UNCHANGED <<client, chip, ret, bound, nalloc, g_chip, clientdata,
                   base, rlog, removed, lastEvent>>

Call(l, name, c) ==
    /\ Step(l, name)
    /\ chips' = SetGlobal(c)
    /\ pc' = After(ProbeSeq, l)
    /\ UNCHANGED <<client, chip, ret, bound, nalloc, g_chip, clientdata,
                   base, rlog, removed, lastEvent>>

ProbeInitChipData == Call("p_chipdata", "fusb_InitChipData", fusb_InitChipData(Global))

ProbeSetClientData ==
    /\ Step("p_clientdata", "i2c_set_clientdata")
    /\ clientdata' = chip
    /\ pc' = After(ProbeSeq, "p_clientdata")
    /\ UNCHANGED <<client, chip, ret, bound, nalloc, g_chip, chips,
                   base, rlog, removed, lastEvent>>

ProbeIsDeviceValid ==
    /\ Step("p_valid", "fusb_IsDeviceValid")
    /\ \E valid \in BOOLEAN :
          IF ~valid
             THEN Fail(-EIO)
             ELSE pc' = After(ProbeSeq, "p_valid") /\ ret' = ret
    /\ UNCHANGED <<client, chip, bound, nalloc, g_chip, clientdata, chips,
                   base, rlog, removed, lastEvent>>

ProbeInitializeGPIO_noReturn ==
    /\ Step("p_gpio", "fusb_InitializeGPIO")
    /\ \/ \E e \in GpioErrors :
             /\ ret' = e
             /\ UNCHANGED chips
       \/ /\ chips' = SetGlobal(fusb_InitializeGPIO(Global))
          /\ ret' = 0
    /\ pc' = After(ProbeSeq, "p_gpio")
    /\ UNCHANGED <<client, chip, bound, nalloc, g_chip, clientdata,
                   base, rlog, removed, lastEvent>>

ProbeInitializeGPIO ==
    /\ Step("p_gpio", "fusb_InitializeGPIO")
    /\ \/ \E e \in GpioErrors :
             /\ Fail(e)
             /\ UNCHANGED chips
       \/ /\ chips' = SetGlobal(fusb_InitializeGPIO(Global))
          /\ ret' = 0
          /\ pc' = After(ProbeSeq, "p_gpio")
    /\ UNCHANGED <<client, chip, bound, nalloc, g_chip, clientdata,
                   base, rlog, removed, lastEvent>>

ProbeInitializeWorkers == Call("p_workers", "fusb_InitializeWorkers", fusb_InitializeWorkers(Global))

ProbeInitializeTimer == Call("p_timer", "fusb_InitializeTimer", fusb_InitializeTimer(Global))

ProbeSysfsInit == Call("p_sysfs", "fusb_Sysfs_Init", fusb_Sysfs_Init(Global))

ProbeInitializeCore == Call("p_core", "fusb_InitializeCore", fusb_InitializeCore(Global))

ProbeScheduleWork == Call("p_sched", "fusb_ScheduleWork", fusb_ScheduleWork(Global))

ProbeReturnRet ==
    /\ pc = "p_ret"
    /\ pc' = After(ProbeSeq, "p_ret")
    /\ UNCHANGED <<client, chip, ret, bound, nalloc, g_chip, clientdata, chips,
                   base, plog, rlog, removed, lastEvent>>

ProbeDone ==
    /\ pc = "p_done"
    /\ pc' = "idle"
    /\ bound' = (bound \/ ret = 0)
    /\ UNCHANGED <<client, chip, ret, nalloc, g_chip, clientdata, chips,
                   base, plog, rlog, removed, lastEvent>>

(***************************************************************************)
(* fusb30x_remove                                                          *)
(***************************************************************************)
RemoveEnter ==
    /\ pc = "idle"
    /\ bound
    /\ pc' = RemoveSeq[1]
    /\ client' = TheClient
    /\ chip' = NULL
    /\ rlog' = <<>>
    /\ UNCHANGED <<ret, bound, nalloc, g_chip, clientdata, chips, base, plog,
                   removed, lastEvent>>

RStep(l, call) ==
    /\ pc = l
    /\ rlog' = Append(rlog, call)

RemoveGetClientData_clear ==
    /\ RStep("r_getdata", "i2c_get_clientdata")
    /\ chip' = clientdata
    /\ clientdata' = NULL
    /\ pc' = After(RemoveSeq, "r_getdata")
    /\ UNCHANGED <<client, ret, bound, nalloc, g_chip, chips,
                   base, plog, removed, lastEvent>>

RemoveGetClientData ==
    /\ RStep("r_getdata", "i2c_get_clientdata")
    /\ chip' = clientdata
    /\ pc' = After(RemoveSeq, "r_getdata")
    /\ UNCHANGED <<client, ret, bound, nalloc, g_chip, clientdata, chips,
                   base, plog, removed, lastEvent>>

RemoveStopTimers ==
    /\ RStep("r_timers", "fusb_StopTimers")
    /\ chips' = SetGlobal(fusb_StopTimers(Global))
    /\ pc' = After(RemoveSeq, "r_timers")
    /\ UNCHANGED <<client, chip, ret, bound, nalloc, g_chip, clientdata,
                   base, plog, removed, lastEvent>>

RemoveStopThreads ==
    /\ RStep("r_threads", "fusb_StopThreads")
    /\ chips' = SetGlobal(fusb_StopThreads_begin(Global))
    /\ pc' = "r_threads_wait"
    /\ UNCHANGED <<client, chip, ret, bound, nalloc, g_chip, clientdata,
                   base, plog, removed, lastEvent>>

RemoveStopThreadsWait ==
    /\ pc = "r_threads_wait"
    /\ g_chip # NULL => chips[g_chip].running = 0
    /\ chips' = SetGlobal(fusb_StopThreads_end(Global))
    /\ pc' = After(RemoveSeq, "r_threads")
    /\ UNCHANGED <<client, chip, ret, bound, nalloc, g_chip, clientdata,
                   base, plog, rlog, removed, lastEvent>>

RemoveGPIOCleanup ==
    /\ RStep("r_gpio", "fusb_GPIO_Cleanup")
    /\ chips' = SetGlobal(fusb_GPIO_Cleanup(Global))
    /\ pc' = After(RemoveSeq, "r_gpio")
    /\ UNCHANGED <<client, chip, ret, bound, nalloc, g_chip, clientdata,
                   base, plog, removed, lastEvent>>

RemoveReturn_propagate ==
    /\ pc = "r_ret"
    /\ ret' = IF Global.gpio = "released" THEN -EIO ELSE 0
    /\ removed' = IF chip = NULL THEN removed ELSE removed \cup {chip}
    /\ pc' = After(RemoveSeq, "r_ret")
    /\ UNCHANGED <<client, chip, bound, nalloc, g_chip, clientdata, chips,
                   base, plog, rlog, lastEvent>>

RemoveReturn ==
    /\ pc = "r_ret"
    /\ ret' = 0
    /\ removed' = IF chip = NULL THEN removed ELSE removed \cup {chip}
    /\ pc' = After(RemoveSeq, "r_ret")
    /\ UNCHANGED <<client, chip, bound, nalloc, g_chip, clientdata, chips,
                   base, plog, rlog, lastEvent>>

RemoveDone ==
    /\ pc = "r_done"
    /\ pc' = "idle"
    /\ bound' = FALSE
    /\ UNCHANGED <<client, chip, ret, nalloc, g_chip, clientdata, chips,
                   base, plog, rlog, removed, lastEvent>>

(***************************************************************************)
(* Producers (interrupt line, timers, control surface) and the worker.     *)
(***************************************************************************)
Trigger ==
    \E k \in 1..nalloc, src \in Sources :
        LET c == chips[k]
            ok == SourceEnabled(c, src) /\ Accepts(c)
        IN  /\ lastEvent' = <<k, src, ok, k \in removed>>
            /\ chips' = IF ok
                           THEN [chips EXCEPT ![k].pending = TRUE,
                                              ![k].trig = Min(c.trig + 1, MaxTrig)]
                           ELSE chips
            /\ UNCHANGED <<pc, client, chip, ret, bound, nalloc, g_chip,
                           clientdata, base, plog, rlog, removed>>

RunBegin_reentrant ==
    \E k \in 1..nalloc :
        /\ chips[k].workers = "active"
        /\ chips[k].pending
        /\ chips[k].running < 2
        /\ chips' = [chips EXCEPT ![k].pending = FALSE, ![k].trig = 0,
                                  ![k].running = @ + 1]
        /\ lastEvent' = <<k, "run", TRUE, k \in removed>>
        /\ UNCHANGED <<pc, client, chip, ret, bound, nalloc, g_chip,
                       clientdata, base, plog, rlog, removed>>

RunBegin_noClear ==
    \E k \in 1..nalloc :
        /\ chips[k].workers = "active"
        /\ chips[k].pending
        /\ chips[k].running = 0
        /\ chips' = [chips EXCEPT ![k].running = @ + 1]
        /\ lastEvent' = <<k, "run", TRUE, k \in removed>>
        /\ UNCHANGED <<pc, client, chip, ret, bound, nalloc, g_chip,
                       clientdata, base, plog, rlog, removed>>

RunBegin ==
    \E k \in 1..nalloc :
        /\ chips[k].workers = "active"
        /\ chips[k].pending
        /\ chips[k].running = 0
        /\ chips' = [chips EXCEPT ![k].pending = FALSE, ![k].trig = 0,
                                  ![k].running = @ + 1]
        /\ lastEvent' = <<k, "run", TRUE, k \in removed>>
        /\ UNCHANGED <<pc, client, chip, ret, bound, nalloc, g_chip,
                       clientdata, base, plog, rlog, removed>>

RunEnd ==
    \E k \in 1..nalloc :
        /\ chips[k].running > 0
        /\ chips' = [chips EXCEPT ![k].running = @ - 1]
        /\ UNCHANGED <<pc, client, chip, ret, bound, nalloc, g_chip,
                       clientdata, base, plog, rlog, removed, lastEvent>>

Probe ==
    \/ ProbeCheckClient \/ ProbeMatchDevice \/ ProbeCheckFunctionality
    \/ ProbeAlloc \/ ProbeSetChip \/ ProbeMutexInit \/ ProbeInitChipData
    \/ ProbeSetClientData \/ ProbeIsDeviceValid \/ ProbeInitializeGPIO
    \/ ProbeInitializeWorkers \/ ProbeInitializeTimer \/ ProbeSysfsInit
    \/ ProbeInitializeCore \/ ProbeScheduleWork \/ ProbeReturnRet \/ ProbeDone

RemoveBody ==
    \/ RemoveGetClientData \/ RemoveStopTimers
    \/ RemoveStopThreads \/ RemoveStopThreadsWait \/ RemoveGPIOCleanup
    \/ RemoveReturn \/ RemoveDone

Remove == RemoveEnter \/ RemoveBody

Next == ProbeEnter \/ Probe \/ Remove \/ Trigger \/ RunBegin \/ RunEnd

Spec == Init /\ [][Next]_vars

NextReattach == Next \/ ReProbeEnter

SpecReattach == Init /\ [][NextReattach]_vars

\* remove is straight-line code and an event-processing run is bounded
\* (spec section 5), so both keep making progress.
SpecLive == Spec /\ WF_vars(RemoveBody) /\ WF_vars(RunEnd)

TypeOK ==
    /\ pc \in {"idle", "r_threads_wait"} \cup {ProbeSeq[i] : i \in 1..Len(ProbeSeq)}
                 \cup {RemoveSeq[i] : i \in 1..Len(RemoveSeq)}
    /\ nalloc \in 0..MaxChips
    /\ g_chip \in 0..nalloc
    /\ clientdata \in 0..nalloc
    /\ removed \subseteq 1..nalloc
    /\ \A k \in ChipIds : chips[k].running \in 0..2 /\ chips[k].trig \in 0..MaxTrig
(***************************************************************************)
(* Properties                                                              *)
(***************************************************************************)
Held(c) ==
    \/ c.gpio = "configured"
    \/ c.workers \in {"dormant", "active", "stopping"}
    \/ c.timers \in {"idle", "running"}

FullyUp(c) ==
    /\ c.lock /\ c.data
    /\ c.gpio # "none"
    /\ c.workers \notin {"none", "dormant"}
    /\ c.timers # "none"
    /\ c.sysfs /\ c.core

\* C1: when probe returns an error, the global chip registration and the
\* client's driver data are what they were when probe was entered and no
\* chip holds a GPIO, worker or timer resource.
C1_FailedAttachLeavesBaseline ==
    (pc = "p_done" /\ ret # 0) =>
        /\ g_chip = base.g_chip
        /\ clientdata = base.clientdata
        /\ \A k \in 1..nalloc : ~Held(chips[k])

\* C2: a probe entered while the device is already attached returns an error
\* and leaves the global chip handle and the client data of the first
\* instance unchanged; never are two chip instances live at once.
C2_SecondAttachRefused ==
    /\ (pc = "p_done" /\ base.bound) =>
          /\ ret # 0
          /\ g_chip = base.g_chip
          /\ clientdata = base.clientdata
    /\ Cardinality({k \in 1..nalloc : chips[k].workers = "active"}) <= 1

\* C3: once remove has returned for a chip, no event-processing run is
\* executing for it and none is outstanding, whatever producer fires.
C3_NoRunAfterDetach ==
    \A k \in removed :
        /\ chips[k].running = 0
        /\ ~chips[k].pending
        /\ ~Accepts(chips[k])

\* C3 witness: after remove returned, the control surface (never torn down)
\* raised a trigger for the removed chip and the scheduler refused it.
C3_Witness ==
    \E k \in removed : lastEvent = <<k, "sysfs", FALSE, TRUE>> /\ chips[k].sysfs

\* C4: whenever the Worker Scheduler of a chip is stopping or stopped, its
\* interrupt source has already been unregistered.
C4_IrqReleasedBeforeWorkersStop ==
    \A k \in 1..nalloc :
        chips[k].workers \in {"stopping", "stopped"} => ~chips[k].irq

\* C5: the interrupt line of a chip can fire only when lock, chip data, GPIO,
\* workers, timers, control surface and state machine are initialized and
\* the workers have been started.
C5_NoIrqBeforeActive ==
    \A k \in 1..nalloc : chips[k].irq => FullyUp(chips[k])

\* C5 witness: an interrupt was delivered to an attached chip.
C5_Witness ==
    \E k \in 1..nalloc : lastEvent = <<k, "irq", TRUE, FALSE>>

\* C6: a chip whose workers accept, hold or execute a Dispatch Request has
\* its GPIO, timers, control surface and state machine initialized; between
\* fusb_InitializeWorkers and fusb_ScheduleWork the workers are dormant.
C6_NoRunBeforeCoreInit ==
    /\ \A k \in 1..nalloc :
          (chips[k].running > 0 \/ chips[k].pending \/ Accepts(chips[k])) =>
              /\ chips[k].gpio # "none"
              /\ chips[k].timers # "none"
              /\ chips[k].sysfs
              /\ chips[k].core
    /\ pc \in {"p_timer", "p_sysfs", "p_core", "p_sched"} =>
          chips[g_chip].workers = "dormant"

\* C6 witness: an event-processing run is executing.
C6_Witness ==
    \E k \in 1..nalloc : chips[k].running > 0 /\ lastEvent[2] = "run"

AttachSteps ==
    <<"check_client", "of_match_device", "i2c_check_functionality",
      "devm_kzalloc", "mutex_init", "fusb_InitChipData", "fusb_IsDeviceValid",
      "fusb_InitializeGPIO", "fusb_InitializeWorkers", "fusb_InitializeTimer",
      "fusb_Sysfs_Init", "fusb_InitializeCore", "fusb_ScheduleWork">>

IsAttachStep(call) == \E i \in 1..Len(AttachSteps) : AttachSteps[i] = call

\* C7: a probe that returns 0 has performed the attach steps in the listed
\* order, each exactly once.
C7_AttachOrder ==
    (pc = "p_done" /\ ret = 0) => SelectSeq(plog, IsAttachStep) = AttachSteps

\* C7 witness: probe returned 0.
C7_Witness == pc = "p_done" /\ ret = 0 /\ Len(plog) > 0

DetachSteps == <<"fusb_StopTimers", "fusb_StopThreads", "fusb_GPIO_Cleanup">>

IsDetachStep(call) == \E i \in 1..Len(DetachSteps) : DetachSteps[i] = call

\* C8: remove stops the timers, then the workers, then releases the GPIO;
\* no chip's scheduler is stopping or stopped while its timers still run,
\* and no GPIO is released while its workers still accept work.
C8_DetachOrder ==
    /\ pc = "r_done" => SelectSeq(rlog, IsDetachStep) = DetachSteps
    /\ \A k \in 1..nalloc :
          /\ chips[k].workers \in {"stopping", "stopped"} => chips[k].timers # "running"
          /\ chips[k].gpio = "released" => chips[k].workers = "stopped"

\* C8 witness: remove returned with timers cancelled, workers stopped and
\* the GPIO released.
C8_Witness ==
    /\ pc = "r_done"
    /\ chip # NULL
    /\ chips[chip].timers = "cancelled"
    /\ chips[chip].workers = "stopped"
    /\ chips[chip].gpio = "released"

\* C9: when remove returns, every subsystem attach brought up for the chip
\* (GPIO, workers, timers, control surface, state machine, registration)
\* has been torn down.
C9_DetachUndoesAttach ==
    (pc = "r_done" /\ chip # NULL) =>
        /\ chips[chip].gpio = "released"
        /\ chips[chip].workers = "stopped"
        /\ chips[chip].timers = "cancelled"
        /\ ~chips[chip].sysfs
        /\ ~chips[chip].core
        /\ g_chip # chip
        /\ clientdata # chip

\* C10: when fusb_InitializeGPIO fails, probe returns its error and the chip
\* is registered neither as the global chip nor as the client's driver data.
C10_GpioFailureUnregisters ==
    (pc = "p_done" /\ Len(plog) > 0 /\ plog[Len(plog)] = "fusb_InitializeGPIO") =>
        /\ ret \in GpioErrors
        /\ g_chip # chip
        /\ clientdata # chip
Last(s) == s[Len(s)]

Calls(s) == {s[i] : i \in 1..Len(s)}

\* C11: a chip is reachable through the global chip handle or the client's
\* driver data only once its lock is initialized, and a probe that returns
\* an error leaves neither registration pointing at the chip it allocated.
C11_PublishedOnlyWhenInitialized ==
    /\ g_chip # NULL => chips[g_chip].lock
    /\ clientdata # NULL => chips[clientdata].lock
    /\ (pc = "p_done" /\ ret # 0 /\ chip # NULL) =>
          (g_chip # chip /\ clientdata # chip)

CauseOf(e) ==
    CASE e = -EINVAL -> "check_client"
      [] e = -EIO    -> "i2c_check_functionality"
      [] e = -ENOMEM -> "devm_kzalloc"
      [] OTHER       -> "fusb_InitializeGPIO"

\* C12: the value a failing probe returns determines which check failed.
C12_ErrorDeterminesCause ==
    (pc = "p_done" /\ ret # 0) => Last(plog) = CauseOf(ret)

RemoveLabels == {RemoveSeq[i] : i \in 1..Len(RemoveSeq) - 1} \cup {"r_threads_wait"}

\* C13: a remove that has been entered reaches its return, having made all
\* three teardown calls, and returns 0.
C13_DetachCompletes ==
    /\ [](pc = "r_done" => (ret = 0 /\ SelectSeq(rlog, IsDetachStep) = DetachSteps))
    /\ (pc \in RemoveLabels) ~> (pc = "r_done")

\* C13 witness: remove had to wait for a run in progress.
C13_Witness ==
    pc = "r_threads_wait" /\ g_chip # NULL /\ chips[g_chip].running > 0

\* C14: the number of event-processing runs executing for one chip never
\* exceeds 1.
C14_AtMostOneRun ==
    \A k \in 1..nalloc : chips[k].running <= 1

\* C14 witness: a run is executing while a further Dispatch Request for the
\* same chip is outstanding.
C14_Witness ==
    \E k \in 1..nalloc : chips[k].running = 1 /\ chips[k].pending

StartSteps ==
    <<"fusb_InitializeWorkers", "fusb_InitializeTimer", "fusb_Sysfs_Init",
      "fusb_InitializeCore", "fusb_ScheduleWork">>

IsStartStep(call) == \E i \in 1..Len(StartSteps) : StartSteps[i] = call

\* C16: probe returns 0 exactly when it has called fusb_ScheduleWork; a
\* failing probe has called none of the five start-up helpers; after
\* fusb_InitializeGPIO returned 0 probe returns 0, having called the five
\* helpers once each, in order.
C16_ZeroIffScheduled ==
    /\ pc = "p_done" =>
          /\ ret = 0 <=> "fusb_ScheduleWork" \in Calls(plog)
          /\ ret # 0 => SelectSeq(plog, IsStartStep) = <<>>
          /\ ret = 0 => SelectSeq(plog, IsStartStep) = StartSteps
    /\ pc \in {"p_workers", "p_timer", "p_sysfs", "p_core", "p_sched", "p_ret"} =>
          ret = 0

\* C16 witness: probe failed in fusb_InitializeGPIO.
C16_Witness ==
    pc = "p_done" /\ ret # 0 /\ Len(plog) > 0 /\ Last(plog) = "fusb_InitializeGPIO"

PreChecks == {"check_client", "of_match_device", "i2c_check_functionality"}

\* C17: a probe that fails one of the three checks made before allocation
\* has allocated nothing, has left the global chip handle and the client
\* data as they were, and has made no call other than the checks.
C17_PreCheckFailureChangesNothing ==
    (pc = "p_done" /\ Len(plog) > 0 /\ Last(plog) \in PreChecks) =>
        /\ nalloc = base.nalloc
        /\ chip = NULL
        /\ g_chip = base.g_chip
        /\ clientdata = base.clientdata
        /\ Calls(plog) \subseteq PreChecks

\* C17 witness: on a re-attach after a detach, the functionality check failed.
C17_Witness ==
    /\ pc = "p_done"
    /\ Len(plog) > 0
    /\ Last(plog) = "i2c_check_functionality"
    /\ base.g_chip # NULL

\* C18: outside the window in which probe is registering a new chip, the
\* global chip handle and the client data both refer to the most recently
\* allocated chip; remove does not change either.
C18_RemoveKeepsRegistration ==
    pc \notin {"p_setchip", "p_mutex", "p_chipdata", "p_clientdata"} =>
        (g_chip = nalloc /\ clientdata = nalloc)

\* C18 witness: remove returned and the removed chip is still registered.
C18_Witness ==
    pc = "r_done" /\ chip # NULL /\ chip \in removed /\ g_chip = chip /\ clientdata = chip
====
